---- MODULE Spec2Model ----
(***************************************************************************)
(* Background task manager of app/core/celery.py: SimpleTaskManager, its   *)
(* asyncio worker coroutines and the Task records they execute, and the    *)
(* periodic SimpleScheduler that submits jobs to it.                       *)
(*                                                                         *)
(* One step of the model is what one coroutine does between two awaits     *)
(* (asyncio runs one coroutine at a time and switches only at an await).   *)
(* Time is a millisecond clock `now`; a datetime is a record [t, aware]    *)
(* where `aware` tells whether it carries tzinfo (datetime.now(tz.utc))    *)
(* or not (datetime.now()).                                                *)
(***************************************************************************)
EXTENDS Integers, Sequences, FiniteSets, TLC

\* ------------------------------------------------------------------ bounds
MaxTasks == 2        \* Task objects ever constructed by submit_task
MaxProcs == 3        \* worker coroutines ever created by start
MaxWorkers == 2      \* largest max_workers given to the constructor
MaxNow == 1          \* last clock reading, in ms
MaxLoops == 2        \* _scheduler_loop coroutines ever created
MaxSleeps == 61      \* sleeps of the loop after setup_periodic_tasks
MaxTicks == 3        \* last clock reading of the scheduler, in sleeps of the loop
StepsPerTick == 4    \* clock readings of the scheduler within one sleep
SetupTicks == 1      \* schedule_periodic is called within that many sleeps

\* --------------------------------------------------------- program constants
MsPerHour == 3600000
MsPerMinute == 60000
TickMs == 60000      \* asyncio.sleep(60) of _scheduler_loop
DefaultHours == 24   \* older_than_hours of cleanup_old_tasks when not given

Names == {"echo", "boom"}
\* The work submitted under each name: "echo" is a coroutine function that
\* returns "ok", "boom" a plain function that raises Exception("disk full").
\* `cleanup` tells the bound method task_manager.cleanup_old_tasks from the
\* funcs that leave the manager alone.
FuncOf(name) ==
    [coroutine |-> name = "echo", raises |-> name = "boom", cleanup |-> FALSE]
\* task_manager.cleanup_old_tasks, a plain function
CleanupOldTasks == [coroutine |-> FALSE, raises |-> FALSE, cleanup |-> TRUE]
\* cleanup_expired_sessions_task._original_func, a coroutine function
ExpiredSessions == [coroutine |-> TRUE, raises |-> FALSE, cleanup |-> FALSE]
NoId == <<"", 0>>
UnknownId == <<"ghost", 0>>   \* an id submit_task never returned
Hours == {0, 24}     \* older_than_hours given to cleanup_old_tasks
Timeouts == {0, 1}   \* timeout given to wait_for_task, in ms
\* The func and interval_minutes given to schedule_periodic.
Periodic == {[work |-> "echo", interval_minutes |-> 1],
             [work |-> "boom", interval_minutes |-> 2]}

VARIABLES
    now,          \* the clock: ms since the process started (UTC)
    max_workers,  \* SimpleTaskManager.max_workers
    running,      \* SimpleTaskManager.running
    tasks,        \* SimpleTaskManager.tasks: id -> Task object (heap index)
    queue,        \* SimpleTaskManager.queue: Task objects, FIFO
    workers,      \* SimpleTaskManager.workers: list of worker coroutines
    heap,         \* the Task objects, by identity
    wk,           \* the worker coroutines ever created: [pc, cancel, task]
    gathers,      \* stop() calls suspended in gather: the workers each awaits
    waits,        \* wait_for_task calls suspended in asyncio.sleep(0.1)
    call,         \* the call made by the step that led here, and its outcome
    scheduled_tasks,  \* SimpleScheduler.scheduled_tasks, in insertion order
    sched_running,    \* SimpleScheduler.running
    loops         \* the _scheduler_loop coroutines ever created: [pc, wake]

\* The state of the scheduler.
svars == <<scheduled_tasks, sched_running, loops>>

vars == <<now, max_workers, running, tasks, queue, workers, heap, wk, gathers,
          waits, call, scheduled_tasks, sched_running, loops>>

\* ---------------------------------------------------------------- datetime
None == <<>>
Some(x) == <<x>>
\* datetime.now(timezone.utc)
NowAware == [t |-> now, aware |-> TRUE]
\* datetime.now(): naive local time (the host is taken to run in UTC)
NowNaive == [t |-> now, aware |-> FALSE]
\* a - b on datetimes: TypeError when one is naive and the other aware
DtSub(a, b) ==
    IF a.aware = b.aware THEN [err |-> FALSE, v |-> a.t - b.t]
    ELSE [err |-> TRUE, v |-> 0]
\* a < b on datetimes: TypeError when one is naive and the other aware
DtLt(a, b) ==
    IF a.aware = b.aware THEN [err |-> FALSE, v |-> a.t < b.t]
    ELSE [err |-> TRUE, v |-> FALSE]
\* datetime - timedelta(hours=h)
MinusHours(d, h) == [t |-> d.t - h * MsPerHour, aware |-> d.aware]

\* -------------------------------------------------------------------- Task
Terminal == {"completed", "failed", "cancelled"}

\* Task(id, name, func, args, kwargs) and __post_init__. enq, deq and invoked
\* count the puts, the gets and the calls of func on this object.
NewTask(id, name, func) ==
    [id |-> id, name |-> name, func |-> func, status |-> "pending",
     created_at |-> NowAware, started_at |-> None, completed_at |-> None,
     result |-> "None", error |-> "None",
     enq |-> 0, deq |-> 0, invoked |-> 0]

EmptyMap == [i \in {} |-> 0]
Range(s) == {s[i] : i \in DOMAIN s}
TaskOf(id) == heap[tasks[id]]
\* The ids a caller may hold: those submit_task returned, and one it did not.
Ids == {heap[o].id : o \in DOMAIN heap} \cup {UnknownId}

NoCall == [op |-> "none", id |-> NoId, out |-> "none", val |-> 0]
Call(op, id, out, val) == [op |-> op, id |-> id, out |-> out, val |-> val]

\* ----------------------------------------------------------------- manager
\* SimpleTaskManager(max_workers)
Init ==
    /\ now = 0
    /\ max_workers \in 0 .. MaxWorkers
    /\ running = FALSE
    /\ tasks = EmptyMap
    /\ queue = <<>>
    /\ workers = <<>>
    /\ heap = <<>>
    /\ wk = <<>>
    /\ gathers = {}
    /\ waits = {}
    /\ call = NoCall
    /\ scheduled_tasks = <<>>
    /\ sched_running = FALSE
    /\ loops = <<>>

\* Time passes.
Advance ==
    /\ now < MaxNow
    /\ now' = now + 1
    /\ call' = NoCall
    /\ UNCHANGED <<max_workers, running, tasks, queue, workers, heap, wk,
                   gathers, waits>>
    /\ UNCHANGED svars

NewWorker == [pc |-> "new", cancel |-> FALSE, task |-> 0]

\* A start that creates its workers whether or not the manager is running.
start_always ==
    /\ Len(wk) + max_workers <= MaxProcs
    /\ running' = TRUE
    /\ wk' = wk \o [i \in 1 .. max_workers |-> NewWorker]
    /\ workers' = workers \o [i \in 1 .. max_workers |-> Len(wk) + i]
    /\ call' = Call("start", NoId, "return", 0)
    /\ UNCHANGED <<now, max_workers, tasks, queue, heap, gathers, waits>>
    /\ UNCHANGED svars

start ==
    /\ running \/ Len(wk) + max_workers <= MaxProcs
    /\ IF running
       THEN UNCHANGED <<running, wk, workers>>
       ELSE /\ running' = TRUE
            /\ wk' = wk \o [i \in 1 .. max_workers |-> NewWorker]
            /\ workers' = workers \o [i \in 1 .. max_workers |-> Len(wk) + i]
    /\ call' = Call("start", NoId, "return", 0)
    /\ UNCHANGED <<now, max_workers, tasks, queue, heap, gathers, waits>>
    /\ UNCHANGED svars

\* stop up to its await: worker.cancel() on a finished coroutine does nothing;
\* gather of no coroutine is already done, so stop does not suspend on it.
stop ==
    /\ IF ~running
       THEN UNCHANGED <<running, wk, workers, gathers>>
       ELSE /\ running' = FALSE
            /\ wk' = [w \in DOMAIN wk |->
                        IF w \in Range(workers) /\ wk[w].pc # "done"
                        THEN [wk[w] EXCEPT !.cancel = TRUE] ELSE wk[w]]
            /\ IF workers = <<>>
               THEN UNCHANGED <<workers, gathers>>
               ELSE /\ gathers' = gathers \cup {Range(workers)}
                    /\ UNCHANGED workers
    /\ call' = Call("stop", NoId, IF running /\ workers # <<>> THEN "await" ELSE "return", 0)
    /\ UNCHANGED <<now, max_workers, tasks, queue, heap, waits>>
    /\ UNCHANGED svars

\* stop after its await: every gathered worker has finished.
stop_return ==
    \E g \in gathers :
        /\ \A w \in g : wk[w].pc = "done"
        /\ workers' = <<>>
        /\ gathers' = gathers \ {g}
        /\ call' = Call("stop", NoId, "return", 0)
        /\ UNCHANGED <<now, max_workers, running, tasks, queue, heap, wk, waits>>
        /\ UNCHANGED svars

\* A submit_task that runs func itself instead of queueing the Task.
submit_task_eager(name, func) ==
    LET task_id == <<name, now>>
        o == Len(heap) + 1
    IN  /\ Len(heap) < MaxTasks
        /\ heap' = Append(heap, [NewTask(task_id, name, func) EXCEPT
                                    !.status = "running", !.invoked = 1])
        /\ tasks' = (task_id :> o) @@ tasks
        /\ queue' = queue
        /\ call' = Call("submit_task", task_id, "return", o)
        /\ UNCHANGED <<now, max_workers, running, workers, wk, gathers, waits>>
        /\ UNCHANGED svars

submit_task(name, func) ==
    LET task_id == <<name, now>>
        o == Len(heap) + 1
    IN  /\ Len(heap) < MaxTasks
        /\ heap' = Append(heap, [NewTask(task_id, name, func) EXCEPT !.enq = 1])
        /\ tasks' = (task_id :> o) @@ tasks
        /\ queue' = Append(queue, o)
        /\ call' = Call("submit_task", task_id, "return", o)
        /\ UNCHANGED <<now, max_workers, running, workers, wk, gathers, waits>>
        /\ UNCHANGED svars

Submit == \E name \in Names : submit_task(name, FuncOf(name))

get_task_status(task_id) ==
    /\ call' = Call("get_task_status", task_id, "return",
                    IF task_id \in DOMAIN tasks THEN tasks[task_id] ELSE 0)
    /\ UNCHANGED <<now, max_workers, running, tasks, queue, workers, heap, wk,
                   gathers, waits>>
    /\ UNCHANGED svars

GetStatus == \E task_id \in Ids : get_task_status(task_id)

\* A caller holding the Task returned by get_task_status marks it cancelled
\* before a worker picks it up (TaskStatus.CANCELLED is set by nothing else).
caller_cancel(task_id) ==
    /\ task_id \in DOMAIN tasks
    /\ TaskOf(task_id).status = "pending"
    /\ heap' = [heap EXCEPT ![tasks[task_id]].status = "cancelled"]
    /\ call' = Call("cancel", task_id, "return", tasks[task_id])
    /\ UNCHANGED <<now, max_workers, running, tasks, queue, workers, wk,
                   gathers, waits>>
    /\ UNCHANGED svars

CallerCancel == \E task_id \in Ids : caller_cancel(task_id)

\* wait_for_task without its `if not task` check: it goes on polling.
WaitIterationNoCheck(c) ==
    IF c.id \in DOMAIN tasks /\ TaskOf(c.id).status \in Terminal THEN "return"
    ELSE "sleep"

\* One iteration of the loop of wait_for_task, for a call c = [id, start_time,
\* timeout]: what it ends with, or "sleep" when it goes on polling.
WaitIteration(c) ==
    IF c.id \notin DOMAIN tasks THEN "ValueError"
    ELSE IF TaskOf(c.id).status \in Terminal THEN "return"
    ELSE LET elapsed == DtSub(NowNaive, c.start_time)
         IN  IF elapsed.err THEN "TypeError"
             ELSE IF elapsed.v > c.timeout THEN "TimeoutError"
             ELSE "sleep"

\* wait_for_task, from the call or from its sleep to its next await or its end.
wait_for_task(c) ==
    LET out == WaitIteration(c)
    IN  /\ waits' = IF out = "sleep" THEN waits \cup {c} ELSE waits \ {c}
        /\ call' = Call("wait_for_task", c.id, out,
                        IF out = "return" THEN tasks[c.id] ELSE 0)
        /\ UNCHANGED <<now, max_workers, running, tasks, queue, workers, heap,
                       wk, gathers>>
        /\ UNCHANGED svars

WaitCalls == [id : Ids, start_time : {NowAware}, timeout : Timeouts]

Wait == \E c \in WaitCalls \cup waits : wait_for_task(c)

\* cleanup_old_tasks removing by age alone, whatever the status.
ShouldRemoveByAge(task, cutoff) ==
    [err |-> FALSE, v |-> task.created_at.t < cutoff.t]

\* The condition of cleanup_old_tasks on one task, with Python's evaluation
\* order: `a and b` and `a or b` evaluate b only when a does not decide.
ShouldRemove(task, cutoff) ==
    LET done_old == IF task.completed_at = None THEN [err |-> FALSE, v |-> FALSE]
                    ELSE DtLt(task.completed_at[1], cutoff)
        made_old == DtLt(task.created_at, cutoff)
    IN  IF done_old.err THEN done_old
        ELSE IF done_old.v THEN done_old
        ELSE IF made_old.err THEN made_old
        ELSE [err |-> FALSE, v |-> made_old.v /\ task.status = "failed"]

\* A cleanup_old_tasks that deletes as it goes: the first record it looked at
\* is gone when the condition raises on a later one.
cleanup_old_tasks_eager(older_than_hours) ==
    LET cutoff == MinusHours(NowNaive, older_than_hours)
        raised == \E id \in DOMAIN tasks : ShouldRemove(TaskOf(id), cutoff).err
        first == IF tasks = EmptyMap THEN {}
                 ELSE {CHOOSE id \in DOMAIN tasks : TRUE}
        to_remove == {id \in DOMAIN tasks : ShouldRemove(TaskOf(id), cutoff).v}
    IN  /\ tasks' = IF raised THEN [id \in DOMAIN tasks \ first |-> tasks[id]]
                    ELSE [id \in DOMAIN tasks \ to_remove |-> tasks[id]]
        /\ call' = Call("cleanup_old_tasks", NoId,
                        IF raised THEN "TypeError" ELSE "return", older_than_hours)
        /\ UNCHANGED <<now, max_workers, running, queue, workers, heap, wk,
                       gathers, waits>>
        /\ UNCHANGED svars

\* The body of cleanup_old_tasks over the Task objects hp: whether it raises,
\* and the table it leaves.
CleanupOn(hp, older_than_hours) ==
    LET cutoff == MinusHours(NowNaive, older_than_hours)
        raised == \E id \in DOMAIN tasks :
                      ShouldRemove(hp[tasks[id]], cutoff).err
        to_remove == {id \in DOMAIN tasks :
                         ShouldRemove(hp[tasks[id]], cutoff).v}
    IN  [raised |-> raised,
         tasks |-> IF raised THEN tasks
                   ELSE [id \in DOMAIN tasks \ to_remove |-> tasks[id]]]

cleanup_old_tasks(older_than_hours) ==
    LET r == CleanupOn(heap, older_than_hours)
    IN  /\ tasks' = r.tasks
        /\ call' = Call("cleanup_old_tasks", NoId,
                        IF r.raised THEN "TypeError" ELSE "return",
                        older_than_hours)
        /\ UNCHANGED <<now, max_workers, running, queue, workers, heap, wk,
                       gathers, waits>>
        /\ UNCHANGED svars

Cleanup == \E older_than_hours \in Hours : cleanup_old_tasks(older_than_hours)

\* ----------------------------------------------------------------- workers
\* A worker that ends after its first pass through the loop.
LoopPcOnce == "done"

\* `while self.running:` then the await of queue.get(): the worker goes back to
\* waiting on the queue, or leaves the loop and ends.
LoopPc == IF running THEN "get" ELSE "done"

\* An _execute_task that does not record when the func was called.
StartedNoStamp(task) ==
    [task EXCEPT !.status = "running", !.invoked = @ + 1]

\* _execute_task up to the call of func.
Started(task) ==
    [task EXCEPT !.status = "running", !.started_at = Some(NowAware),
                 !.invoked = @ + 1]

\* An _execute_task whose handler marks the record FAILED and drops the message.
FinishedNoError(task) ==
    IF task.func.raises
    THEN [task EXCEPT !.status = "failed",
                      !.completed_at = Some(NowAware)]
    ELSE [task EXCEPT !.result = "ok", !.status = "completed",
                      !.completed_at = Some(NowAware)]

\* _execute_task from the end of func: the result is stored, or the Exception
\* is caught and its message stored.
Finished(task) ==
    IF task.func.raises
    THEN [task EXCEPT !.status = "failed", !.error = "disk full",
                      !.completed_at = Some(NowAware)]
    ELSE [task EXCEPT !.result = "ok", !.status = "completed",
                      !.completed_at = Some(NowAware)]

\* _execute_task from the end of the call of task_manager.cleanup_old_tasks,
\* r telling whether it raised: None is stored as the result, or the TypeError
\* is caught and its message stored.
FinishedCleanup(task, r) ==
    IF r.raised
    THEN [task EXCEPT !.status = "failed",
                      !.error = "can't compare offset-naive and offset-aware datetimes",
                      !.completed_at = Some(NowAware)]
    ELSE [task EXCEPT !.status = "completed",
                      !.completed_at = Some(NowAware)]

\* The coroutine starts: it reaches its first await, or ends at once.
worker_begin(w) ==
    /\ wk[w].pc = "new" /\ ~wk[w].cancel
    /\ wk' = [wk EXCEPT ![w].pc = LoopPc]
    /\ call' = NoCall
    /\ UNCHANGED <<now, max_workers, running, tasks, queue, workers, heap,
                   gathers, waits>>
    /\ UNCHANGED svars

\* A worker whose handler records the failure and raises it again: the error
\* leaves the loop and the coroutine ends.
worker_get_reraise(w) ==
    /\ wk[w].pc = "get" /\ ~wk[w].cancel
    /\ queue # <<>>
    /\ LET o == Head(queue)
           task == [heap[o] EXCEPT !.deq = @ + 1]
       IN  /\ queue' = Tail(queue)
           /\ IF task.func.coroutine
              THEN /\ heap' = [heap EXCEPT ![o] = Started(task)]
                   /\ wk' = [wk EXCEPT ![w].pc = "exec", ![w].task = o]
              ELSE /\ heap' = [heap EXCEPT ![o] = Finished(Started(task))]
                   /\ wk' = [wk EXCEPT ![w].pc =
                                IF task.func.raises THEN "done" ELSE LoopPc]
    /\ call' = NoCall
    /\ UNCHANGED <<now, max_workers, running, tasks, workers, gathers, waits>>
    /\ UNCHANGED svars

\* A worker that reads the head of the queue without removing it.
worker_get_peek(w) ==
    /\ wk[w].pc = "get" /\ ~wk[w].cancel
    /\ queue # <<>>
    /\ LET o == Head(queue)
           task == [heap[o] EXCEPT !.deq = @ + 1]
       IN  /\ queue' = queue
           /\ IF task.func.coroutine
              THEN /\ heap' = [heap EXCEPT ![o] = Started(task)]
                   /\ wk' = [wk EXCEPT ![w].pc = "exec", ![w].task = o]
              ELSE /\ heap' = [heap EXCEPT ![o] = Finished(Started(task))]
                   /\ wk' = [wk EXCEPT ![w].pc = LoopPc]
    /\ call' = NoCall
    /\ UNCHANGED <<now, max_workers, running, tasks, workers, gathers, waits>>
    /\ UNCHANGED svars

\* A worker that takes the newest Task of the queue instead of the oldest.
worker_get_lifo(w) ==
    /\ wk[w].pc = "get" /\ ~wk[w].cancel
    /\ queue # <<>>
    /\ LET o == queue[Len(queue)]
           task == [heap[o] EXCEPT !.deq = @ + 1]
       IN  /\ queue' = SubSeq(queue, 1, Len(queue) - 1)
           /\ IF task.func.coroutine
              THEN /\ heap' = [heap EXCEPT ![o] = Started(task)]
                   /\ wk' = [wk EXCEPT ![w].pc = "exec", ![w].task = o]
              ELSE /\ heap' = [heap EXCEPT ![o] = Finished(Started(task))]
                   /\ wk' = [wk EXCEPT ![w].pc = LoopPc]
    /\ call' = NoCall
    /\ UNCHANGED <<now, max_workers, running, tasks, workers, gathers, waits>>
    /\ UNCHANGED svars

\* queue.get() returns the head of the queue and _execute_task runs: a plain
\* function to its end, a coroutine function until it suspends.
worker_get(w) ==
    /\ wk[w].pc = "get" /\ ~wk[w].cancel
    /\ queue # <<>>
    /\ LET o == Head(queue)
           task == [heap[o] EXCEPT !.deq = @ + 1]
           called == [heap EXCEPT ![o] = Started(task)]
       IN  /\ queue' = Tail(queue)
           /\ IF task.func.coroutine
              THEN /\ heap' = called
                   /\ tasks' = tasks
                   /\ wk' = [wk EXCEPT ![w].pc = "exec", ![w].task = o]
              ELSE IF task.func.cleanup
              THEN LET r == CleanupOn(called, DefaultHours)
                   IN  /\ heap' = [called EXCEPT ![o] = FinishedCleanup(@, r)]
                       /\ tasks' = r.tasks
                       /\ wk' = [wk EXCEPT ![w].pc = LoopPc]
              ELSE /\ heap' = [heap EXCEPT ![o] = Finished(Started(task))]
                   /\ tasks' = tasks
                   /\ wk' = [wk EXCEPT ![w].pc = LoopPc]
    /\ call' = NoCall
    /\ UNCHANGED <<now, max_workers, running, workers, gathers, waits>>
    /\ UNCHANGED svars

\* wait_for(queue.get(), 1.0) times out on an empty queue.
worker_timeout(w) ==
    /\ wk[w].pc = "get" /\ ~wk[w].cancel
    /\ queue = <<>>
    /\ wk' = [wk EXCEPT ![w].pc = LoopPc]
    /\ call' = NoCall
    /\ UNCHANGED <<now, max_workers, running, tasks, queue, workers, heap,
                   gathers, waits>>
    /\ UNCHANGED svars

\* The awaited coroutine function ends.
worker_finish(w) ==
    /\ wk[w].pc = "exec" /\ ~wk[w].cancel
    /\ heap' = [heap EXCEPT ![wk[w].task] = Finished(@)]
    /\ wk' = [wk EXCEPT ![w].pc = LoopPc, ![w].task = 0]
    /\ call' = NoCall
    /\ UNCHANGED <<now, max_workers, running, tasks, queue, workers, gathers,
                   waits>>
    /\ UNCHANGED svars

\* A cancelled worker that takes the head of the queue away with it.
worker_cancelled_drops(w) ==
    /\ wk[w].cancel /\ wk[w].pc # "done"
    /\ wk' = [wk EXCEPT ![w] = [pc |-> "done", cancel |-> FALSE, task |-> 0]]
    /\ queue' = IF queue = <<>> THEN queue ELSE Tail(queue)
    /\ call' = NoCall
    /\ UNCHANGED <<now, max_workers, running, tasks, workers, heap,
                   gathers, waits>>
    /\ UNCHANGED svars

\* CancelledError is raised at the worker's await (in queue.get, inside the
\* awaited func, or before the coroutine has started): `except Exception` does
\* not catch it, the worker ends and the task it was running stays as it is.
worker_cancelled(w) ==
    /\ wk[w].cancel /\ wk[w].pc # "done"
    /\ wk' = [wk EXCEPT ![w] = [pc |-> "done", cancel |-> FALSE, task |-> 0]]
    /\ call' = NoCall
    /\ UNCHANGED <<now, max_workers, running, tasks, queue, workers, heap,
                   gathers, waits>>
    /\ UNCHANGED svars

WorkerBegin == \E w \in DOMAIN wk : worker_begin(w)
WorkerGet == \E w \in DOMAIN wk : worker_get(w)
WorkerTimeout == \E w \in DOMAIN wk : worker_timeout(w)
WorkerFinish == \E w \in DOMAIN wk : worker_finish(w)
WorkerCancelled == \E w \in DOMAIN wk : worker_cancelled(w)

Next ==
    \/ Advance
    \/ start
    \/ stop
    \/ stop_return
    \/ Submit
    \/ GetStatus
    \/ CallerCancel
    \/ Wait
    \/ Cleanup
    \/ WorkerBegin
    \/ WorkerGet
    \/ WorkerTimeout
    \/ WorkerFinish
    \/ WorkerCancelled

Spec == Init /\ [][Next]_vars

\* ------------------------------------------------- a manager never stopped
\* The manager is started and stop is never called; the event loop runs every
\* coroutine that is ready, and every func ends.
WorkerStep(w) ==
    /\ w \in DOMAIN wk
    /\ worker_begin(w) \/ worker_get(w) \/ worker_finish(w)

NextLive ==
    \/ Advance
    \/ start
    \/ Submit
    \/ CallerCancel
    \/ WorkerBegin
    \/ WorkerGet
    \/ WorkerTimeout
    \/ WorkerFinish

LiveSpec ==
    /\ Init
    /\ [][NextLive]_vars
    /\ \A w \in 1 .. MaxProcs : WF_vars(WorkerStep(w))

\* --------------------------------------------------------------- scheduler
\* datetime + timedelta
PlusDelta(d, ms) == [t |-> d.t + ms, aware |-> d.aware]
\* timedelta(minutes=m), in ms
Minutes(m) == m * MsPerMinute
\* f"periodic_{name}"
JobId(name) == <<"periodic", name>>

\* The entry schedule_periodic stores. `since` is history: the time of the call
\* when the scheduler was running then and has not been stopped since.
NewJob(name, func, interval_minutes) ==
    [key |-> JobId(name), name |-> name, func |-> func,
     interval |-> Minutes(interval_minutes),
     next_run |-> PlusDelta(NowNaive, Minutes(interval_minutes)),
     since |-> IF sched_running THEN Some(now) ELSE None]

\* A table that keeps every entry ever stored, under whatever key.
PutAppend(jobs, job) == Append(jobs, job)

\* d[key] = value on a dict: a known key keeps its place, a new one goes last.
Put(jobs, job) ==
    IF \E i \in DOMAIN jobs : jobs[i].key = job.key
    THEN [i \in DOMAIN jobs |-> IF jobs[i].key = job.key THEN job ELSE jobs[i]]
    ELSE Append(jobs, job)

schedule_periodic(name, func, interval_minutes) ==
    /\ scheduled_tasks' =
          Put(scheduled_tasks, NewJob(name, func, interval_minutes))
    /\ call' = Call("schedule_periodic", <<name, 0>>, "return",
                    [func |-> func, interval_minutes |-> interval_minutes])
    /\ UNCHANGED <<now, max_workers, running, tasks, queue, workers, heap, wk,
                   gathers, waits, sched_running, loops>>

Schedule ==
    /\ now < SetupTicks * TickMs
    /\ \E name \in Names, p \in Periodic :
          schedule_periodic(name, FuncOf(p.work), p.interval_minutes)

\* SimpleScheduler.start: create_task makes the loop ready to run.
scheduler_start ==
    /\ sched_running \/ Len(loops) < MaxLoops
    /\ IF sched_running
       THEN UNCHANGED <<sched_running, loops>>
       ELSE /\ sched_running' = TRUE
            /\ loops' = Append(loops, [pc |-> "new", wake |-> now])
    /\ call' = Call("scheduler.start", NoId, "return", 0)
    /\ UNCHANGED <<now, max_workers, running, tasks, queue, workers, heap, wk,
                   gathers, waits, scheduled_tasks>>

\* SimpleScheduler.stop
scheduler_stop ==
    /\ sched_running' = FALSE
    /\ scheduled_tasks' = [i \in DOMAIN scheduled_tasks |->
                              [scheduled_tasks[i] EXCEPT !.since = None]]
    /\ call' = Call("scheduler.stop", NoId, "return", 0)
    /\ UNCHANGED <<now, max_workers, running, tasks, queue, workers, heap, wk,
                   gathers, waits, loops>>

\* current_time >= task_info["next_run"], both from datetime.now()
Due(job) ==
    LET lt == DtLt(NowNaive, job.next_run)
    IN  ~lt.err /\ ~lt.v

\* task_info["next_run"] = current_time + task_info["interval"]
NextRun(job) == PlusDelta(NowNaive, job.interval)

\* The for loop of _scheduler_loop from entry i on, over st = [heap, tasks,
\* queue, jobs]: each due job is submitted (submit_task does not suspend: the
\* queue is unbounded) and its next_run is set.
RECURSIVE RunDue(_, _)
RunDue(i, st) ==
    IF i > Len(st.jobs) THEN st
    ELSE LET job == st.jobs[i]
             task_id == <<job.name, now>>
             o == Len(st.heap) + 1
         IN  IF Due(job)
             THEN RunDue(i + 1,
                    [heap |-> Append(st.heap,
                                [NewTask(task_id, job.name, job.func)
                                    EXCEPT !.enq = 1]),
                     tasks |-> (task_id :> o) @@ st.tasks,
                     queue |-> Append(st.queue, o),
                     jobs |-> [st.jobs EXCEPT ![i].next_run = NextRun(job)]])
             ELSE RunDue(i + 1, st)

\* _scheduler_loop from its start or from its sleep to its next sleep or its
\* end: `while self.running`, then one pass over the table.
scheduler_loop(l) ==
    /\ loops[l].pc \in {"new", "sleep"}
    /\ loops[l].wake <= now
    /\ IF ~sched_running
       THEN /\ loops' = [loops EXCEPT ![l].pc = "done"]
            /\ call' = Call("_scheduler_loop", NoId, "done", 0)
            /\ UNCHANGED <<heap, tasks, queue, scheduled_tasks>>
       ELSE LET st == RunDue(1, [heap |-> heap, tasks |-> tasks,
                                 queue |-> queue, jobs |-> scheduled_tasks])
            IN  /\ Len(st.heap) <= MaxTasks
                /\ heap' = st.heap
                /\ tasks' = st.tasks
                /\ queue' = st.queue
                /\ scheduled_tasks' = st.jobs
                /\ loops' = [loops EXCEPT ![l] =
                                [pc |-> "sleep", wake |-> now + TickMs]]
                /\ call' = Call("_scheduler_loop", NoId, "sleep",
                                Len(st.heap) - Len(heap))
    /\ UNCHANGED <<now, max_workers, running, workers, wk, gathers, waits,
                   sched_running>>

SchedulerLoop == \E l \in DOMAIN loops : scheduler_loop(l)

\* Time passes, once every loop that is ready to run has run.
StepMs == TickMs \div StepsPerTick

Pass ==
    /\ now + StepMs <= MaxTicks * TickMs
    /\ \A l \in DOMAIN loops : loops[l].pc # "done" => loops[l].wake > now
    /\ now' = now + StepMs
    /\ call' = NoCall
    /\ UNCHANGED <<max_workers, running, tasks, queue, workers, heap, wk,
                   gathers, waits>>
    /\ UNCHANGED svars

SchedNext ==
    \/ Pass
    \/ Schedule
    \/ scheduler_start
    \/ scheduler_stop
    \/ SchedulerLoop

\* The scheduler over a task manager that is never started.
SchedInit == Init /\ max_workers = 0

SchedSpec == SchedInit /\ [][SchedNext]_vars

\* ------------------------------------------------ the periodic jobs at work
\* setup_periodic_tasks(), called once when the application starts.
setup_periodic_tasks ==
    /\ scheduled_tasks = <<>>
    /\ now < SetupTicks * TickMs
    /\ scheduled_tasks' =
          Put(Put(scheduled_tasks,
                  NewJob("cleanup_old_tasks", CleanupOldTasks, 60)),
              NewJob("cleanup_expired_sessions", ExpiredSessions, 360))
    /\ call' = Call("setup_periodic_tasks", NoId, "return", 0)
    /\ UNCHANGED <<now, max_workers, running, tasks, queue, workers, heap, wk,
                   gathers, waits, sched_running, loops>>

\* The wake-up times of the loops that are asleep.
Wakes == {loops[l].wake : l \in {k \in DOMAIN loops : loops[k].pc # "done"}}

\* Time passes up to the next wake-up of a scheduler loop, once every loop
\* that is ready to run has run.
Sleep ==
    /\ Wakes # {}
    /\ \A t \in Wakes : t > now
    /\ \A t \in Wakes : t <= MaxSleeps * TickMs
    /\ now' = CHOOSE t \in Wakes : \A u \in Wakes : t <= u
    /\ call' = NoCall
    /\ UNCHANGED <<max_workers, running, tasks, queue, workers, heap, wk,
                   gathers, waits>>
    /\ UNCHANGED svars

\* The application: one worker and the two periodic jobs of
\* setup_periodic_tasks, with neither manager nor scheduler ever stopped. The
\* only tasks are those of the hourly job (the six-hourly one, a coroutine
\* function, does not fire within MaxSleeps sleeps).
CleanupInit == Init /\ max_workers = 1

CleanupNext ==
    \/ Sleep
    \/ setup_periodic_tasks
    \/ scheduler_start
    \/ start
    \/ SchedulerLoop
    \/ WorkerBegin
    \/ WorkerGet
    \/ WorkerTimeout

CleanupSpec == CleanupInit /\ [][CleanupNext]_vars

\* ------------------------------------------------------------------ claims
Objects == 1 .. MaxTasks
Live == {w \in DOMAIN wk : wk[w].pc # "done"}
Submitted(o) == o \in DOMAIN heap
StatusOf(o) == IF Submitted(o) THEN heap[o].status ELSE "none"

\* C1: on a manager started with at least one worker and never stopped, every
\* submitted task's record eventually becomes COMPLETED or FAILED.
C1_EventuallyTerminal ==
    \A o \in Objects :
        (Submitted(o) /\ running /\ max_workers >= 1)
            ~> (StatusOf(o) \in {"completed", "failed"})

C1_Witness ==
    /\ running /\ max_workers >= 1
    /\ Len(heap) = MaxTasks
    /\ \A o \in DOMAIN heap : heap[o].status \in {"completed", "failed"}

\* C3: a func that raises makes its record FAILED and leaves every worker
\* alive, and a task with a func that returns, submitted after a failure, still
\* becomes COMPLETED.
C3_FaultBarrier ==
    /\ [][\A o \in DOMAIN heap :
            (heap[o].status # "failed" /\ heap'[o].status = "failed")
                => (Live' = Live /\ heap'[o].error = "disk full")]_vars
    /\ \A o \in Objects :
        (/\ Submitted(o) /\ ~heap[o].func.raises
         /\ running /\ max_workers >= 1
         /\ \E f \in DOMAIN heap : f < o /\ heap[f].status = "failed")
            ~> (StatusOf(o) = "completed")

C3_Witness ==
    /\ max_workers = 1 /\ Cardinality(Live) = 1
    /\ Len(heap) = 2
    /\ heap[1].status = "failed" /\ heap[2].status = "completed"
    /\ heap[1].completed_at[1].t < heap[2].created_at.t

\* C2: every Task object is put on the queue once, taken from it at most once,
\* its func is called at most once (a FAILED task is not run again), and no two
\* workers execute the same object.
InQueue(o) == Cardinality({i \in DOMAIN queue : queue[i] = o})
Executing(o) == {w \in DOMAIN wk : wk[w].pc = "exec" /\ wk[w].task = o}

C2_AtMostOnce ==
    \A o \in DOMAIN heap :
        /\ heap[o].enq = 1
        /\ InQueue(o) + heap[o].deq = 1
        /\ heap[o].invoked <= heap[o].deq
        /\ Cardinality(Executing(o)) <= 1
        /\ heap[o].status \in {"running", "completed", "failed"}
               => heap[o].invoked = 1

C2_Witness ==
    /\ Len(heap) = 2 /\ queue = <<>>
    /\ heap[1].status = "failed" /\ heap[1].invoked = 1
    /\ Executing(2) # {}
    /\ \E w \in DOMAIN wk : wk[w].pc = "get" /\ ~wk[w].cancel

\* C4: submit_task on a manager that is not running signals NotRunningError
\* and leaves the table and the queue as they were.
C4_SubmitNotRunning ==
    [][(call'.op = "submit_task" /\ ~running)
          => (call'.out = "NotRunningError" /\ tasks' = tasks /\ queue' = queue)]_vars

\* C5: wait_for_task called right after submit_task, on a running manager with
\* a worker, does not end in an error at its first look at the record (it goes
\* on polling until the record is terminal or the deadline passes).
C5_SubmitThenWait ==
    [][(/\ call.op = "submit_task" /\ running /\ max_workers >= 1
        /\ call'.op = "wait_for_task" /\ call'.id = call.id)
          => call'.out \in {"sleep", "TimeoutError"}]_vars

\* C6: wait_for_task on a known record that is not terminal goes on polling or
\* signals TimeoutError, and changes neither the record nor the table.
C6_WaitTimesOut ==
    [][(/\ call'.op = "wait_for_task" /\ call'.id \in DOMAIN tasks
        /\ TaskOf(call'.id).status \notin Terminal)
          => (/\ call'.out \in {"sleep", "TimeoutError"}
              /\ tasks' = tasks /\ heap' = heap)]_vars

\* C7: wait_for_task with an id that is not in the table raises the "not found"
\* ValueError, get_task_status with such an id returns None, and neither
\* changes the table, the records or the queue.
C7_UnknownId ==
    [][(call'.op \in {"wait_for_task", "get_task_status"}
          /\ call'.id \notin DOMAIN tasks)
        => (/\ call'.op = "wait_for_task" => call'.out = "ValueError"
            /\ call'.op = "get_task_status" => (call'.out = "return" /\ call'.val = 0)
            /\ waits' = waits
            /\ tasks' = tasks /\ heap' = heap /\ queue' = queue)]_vars

C7_Witness ==
    /\ call.op = "wait_for_task" /\ call.out = "ValueError"
    /\ call.id \notin DOMAIN tasks
    /\ DOMAIN tasks # {}

\* What cleanup(olderThan) is to remove: completed before the cutoff, or created
\* before the cutoff and FAILED.
Old(task, cutoff) ==
    \/ task.completed_at # None /\ task.completed_at[1].t < cutoff
    \/ task.created_at.t < cutoff /\ task.status = "failed"

\* C8: cleanup_old_tasks returns normally and removes exactly the old records.
C8_CleanupRemovesOld ==
    [][call'.op = "cleanup_old_tasks"
          => (/\ call'.out = "return"
              /\ DOMAIN tasks' =
                    {id \in DOMAIN tasks :
                        ~Old(TaskOf(id), now - call'.val * MsPerHour)})]_vars

\* C9: cleanup_old_tasks leaves every PENDING or RUNNING record in the table,
\* unchanged, however old it is, and leaves the queue unchanged.
C9_CleanupKeepsUnfinished ==
    [][call'.op = "cleanup_old_tasks"
          => (/\ queue' = queue
              /\ \A id \in DOMAIN tasks :
                    TaskOf(id).status \in {"pending", "running"}
                        => (/\ id \in DOMAIN tasks'
                            /\ tasks'[id] = tasks[id]
                            /\ heap'[tasks[id]] = heap[tasks[id]]))]_vars

C9_Witness ==
    /\ call.op = "cleanup_old_tasks" /\ call.val = 0
    /\ \E id \in DOMAIN tasks :
          /\ TaskOf(id).status = "running"
          /\ TaskOf(id).created_at.t < now

\* The status changes of one step of the model: a plain function runs from
\* PENDING to its end within one step of its worker.
Legal == {<<"pending", "running">>, <<"running", "completed">>,
          <<"running", "failed">>, <<"pending", "completed">>,
          <<"pending", "failed">>}

\* C10: the manager changes a status only along PENDING -> RUNNING ->
\* COMPLETED or FAILED, and changes no field of a record that is COMPLETED,
\* FAILED or CANCELLED.
C10_TerminalIsFinal ==
    [][\A o \in DOMAIN heap :
          /\ heap[o].status \in Terminal => heap'[o] = heap[o]
          /\ (heap'[o].status # heap[o].status /\ heap'[o].status # "cancelled")
                => <<heap[o].status, heap'[o].status>> \in Legal]_vars

\* C11: a worker that takes from the queue a record the caller has marked
\* CANCELLED does not call its func, leaves the record CANCELLED with
\* started_at, completed_at, result and error unset, and stays alive.
C11_CancelledSkipped ==
    [][\A o \in DOMAIN heap :
          (heap[o].status = "cancelled" /\ heap'[o].deq = heap[o].deq + 1)
              => (/\ heap'[o].invoked = heap[o].invoked
                  /\ heap'[o].status = "cancelled"
                  /\ heap'[o].started_at = None
                  /\ heap'[o].completed_at = None
                  /\ heap'[o].result = "None"
                  /\ heap'[o].error = "None"
                  /\ Live' = Live)]_vars

\* C12: stop never interrupts a func in flight: a worker suspended in the func
\* of a RUNNING record leaves it only with the record COMPLETED or FAILED.
C12_StopWaits ==
    [][\A w \in DOMAIN wk :
          (wk[w].pc = "exec" /\ wk'[w].pc # "exec")
              => heap'[wk[w].task].status \in {"completed", "failed"}]_vars

\* C13: a submit_task that returns an id leaves under that id a record with
\* the given name, PENDING, with started_at, completed_at, result and error
\* unset; the record is the last of the queue, its func has not been called,
\* and no other record and no other entry of the table has changed.
C13_SubmitEffect ==
    [][call'.op = "submit_task"
          => LET id == call'.id
                 o == call'.val
             IN  /\ id \in DOMAIN tasks' /\ tasks'[id] = o
                 /\ heap'[o].id = id /\ heap'[o].name = id[1]
                 /\ heap'[o].status = "pending"
                 /\ heap'[o].started_at = None
                 /\ heap'[o].completed_at = None
                 /\ heap'[o].result = "None"
                 /\ heap'[o].error = "None"
                 /\ queue' = Append(queue, o)
                 /\ heap'[o].invoked = 0
                 /\ \A p \in DOMAIN heap : heap'[p] = heap[p]
                 /\ \A i \in DOMAIN tasks \ {id} :
                        i \in DOMAIN tasks' /\ tasks'[i] = tasks[i]]_vars

C13_Witness ==
    /\ call.op = "submit_task" /\ call.val = 2
    /\ heap[1].status = "running"
    /\ heap[1].id # heap[2].id
    /\ queue = <<2>>

\* C14: get_task_status changes no state and returns a snapshot: what the
\* caller holds after the call is not changed by the next step of a worker.
C14_StatusIsSnapshot ==
    [][/\ (call.op = "get_task_status" /\ call.val # 0 /\ call'.op = "none")
            => heap'[call.val] = heap[call.val]
       /\ call'.op = "get_task_status"
            => UNCHANGED <<tasks, heap, queue, running, workers, wk>>]_vars

\* C15: no two Task objects ever constructed carry the same id, so that a
\* submit_task never replaces an entry of the table.
C15_UniqueIds ==
    \A a, b \in DOMAIN heap : a # b => heap[a].id # heap[b].id

\* C16: tasks are started in the order of their submission: no Task has been
\* started while one submitted before it is still PENDING.
C16_StartOrder ==
    \A a, b \in DOMAIN heap :
        (a < b /\ heap[b].status \in {"running", "completed", "failed"})
            => heap[a].status # "pending"

C16_Witness ==
    /\ Len(heap) = 2 /\ max_workers = 2
    /\ heap[1].status = "running" /\ heap[2].status = "running"

\* C17: on each pass of the scheduler loop, every job whose next_run is not
\* after the current time is submitted exactly once, with its name and func,
\* and its next_run becomes its previous next_run plus its interval; a job that
\* is not due is not submitted and is left as it is.
C17_TickSubmitsDue ==
    [][(call'.op = "_scheduler_loop" /\ call'.out = "sleep")
          => \A i \in DOMAIN scheduled_tasks :
                LET job == scheduled_tasks[i]
                    new == {o \in DOMAIN heap' \ DOMAIN heap :
                               /\ heap'[o].name = job.name
                               /\ heap'[o].func = job.func}
                IN  IF job.next_run.t <= now
                    THEN /\ Cardinality(new) = 1
                         /\ scheduled_tasks'[i].next_run.t
                               = job.next_run.t + job.interval
                    ELSE /\ new = {}
                         /\ scheduled_tasks'[i] = job]_vars

\* The tasks the scheduler has submitted for a job since it was scheduled.
SubmissionsOf(job) ==
    Cardinality({o \in DOMAIN heap : /\ heap[o].name = job.name
                                     /\ heap[o].created_at.t > job.since[1]})
\* Every loop that is ready to run at this clock reading has run.
Settled == \A l \in DOMAIN loops : loops[l].pc # "done" => loops[l].wake > now

\* C18: with the scheduler running, the k-th submission of a job of interval
\* I comes no later than k * I plus one sleep of the loop after the job was
\* scheduled, and after 2.5 * I the job has been submitted at least twice.
C18_FiresEachInterval ==
    \A i \in DOMAIN scheduled_tasks :
        LET job == scheduled_tasks[i]
        IN  (job.since # None /\ sched_running /\ Settled)
                => /\ \A k \in 1 .. MaxTasks :
                        now >= job.since[1] + k * job.interval + TickMs
                            => SubmissionsOf(job) >= k
                   /\ 2 * now >= 2 * job.since[1] + 5 * job.interval
                            => SubmissionsOf(job) >= 2

\* C19: the table holds one job per name; schedule_periodic leaves under the
\* name the func and the interval of the call and next_run = the time of the
\* call plus the interval, leaves every other job as it is and submits nothing.
C19_ScheduleReplaces ==
    /\ [](\A i, j \in DOMAIN scheduled_tasks :
            i # j => scheduled_tasks[i].name # scheduled_tasks[j].name)
    /\ [][call'.op = "schedule_periodic"
            => LET name == call'.id[1]
                   known == \E i \in DOMAIN scheduled_tasks :
                                scheduled_tasks[i].name = name
               IN  /\ \E i \in DOMAIN scheduled_tasks' :
                        LET job == scheduled_tasks'[i]
                        IN  /\ job.name = name
                            /\ job.func = call'.val.func
                            /\ job.interval =
                                 call'.val.interval_minutes * MsPerMinute
                            /\ job.next_run.t = now + job.interval
                   /\ Len(scheduled_tasks') =
                        Len(scheduled_tasks) + (IF known THEN 0 ELSE 1)
                   /\ \A i \in DOMAIN scheduled_tasks :
                        scheduled_tasks[i].name # name
                            => scheduled_tasks'[i] = scheduled_tasks[i]
                   /\ heap' = heap /\ tasks' = tasks /\ queue' = queue]_vars

C19_Witness ==
    /\ call.op = "schedule_periodic" /\ sched_running
    /\ Len(scheduled_tasks) = 2
    /\ scheduled_tasks[1].name = call.id[1]
    /\ scheduled_tasks[1].interval = scheduled_tasks[2].interval
    /\ scheduled_tasks[1].next_run.t > scheduled_tasks[2].next_run.t

\* C20: whatever the sequence of start and stop of the scheduler, at most one
\* loop is active at any time.
C20_OneLoop ==
    Cardinality({l \in DOMAIN loops : loops[l].pc # "done"}) <= 1

\* C21: start on a running manager changes no state (the workers, the queue,
\* the table and the records stay as they are), and on a manager constructed
\* with max_workers = 0 start succeeds and every submitted Task stays PENDING
\* (or as its caller marked it) in the queue.
C21_StartIdempotent ==
    /\ [][(call'.op = "start" /\ running)
            => (/\ call'.out = "return"
                /\ UNCHANGED <<running, workers, wk, queue, tasks, heap>>)]_vars
    /\ [](max_workers = 0
            => /\ wk = <<>>
               /\ \A o \in DOMAIN heap :
                    /\ InQueue(o) = 1
                    /\ heap[o].status \in {"pending", "cancelled"}
                    /\ heap[o].started_at = None)

C21_Witness ==
    /\ call.op = "start" /\ running /\ max_workers = 2
    /\ Len(wk) = 2
    /\ \E w \in DOMAIN wk : wk[w].pc = "exec" /\ ~wk[w].cancel
    /\ queue # <<>>

\* No stop is waiting for its workers and the manager has not been started
\* again: stop has returned, or start was never called.
Stopped == ~running /\ gathers = {}

\* C22: stop on a manager that is not running changes nothing; and once stop
\* has returned, until the next start, no worker is live and no record goes
\* from PENDING to RUNNING.
C22_StopStops ==
    /\ [][(call'.op = "stop" /\ ~running /\ gathers = {})
            => UNCHANGED <<running, workers, wk, queue, tasks, heap>>]_vars
    /\ [](Stopped => Live = {})
    /\ [][(Stopped /\ Stopped')
            => \A o \in DOMAIN heap :
                  heap[o].status = "pending" => heap'[o].status # "running"]_vars

\* C23: a record has a result only when it is COMPLETED and an error only when
\* it is FAILED, and a FAILED record carries the message of the Exception its
\* func raised.
C23_ResultAndError ==
    \A o \in DOMAIN heap :
        /\ heap[o].result # "None" => heap[o].status = "completed"
        /\ heap[o].error # "None" => heap[o].status = "failed"
        /\ heap[o].status = "failed"
              => (heap[o].func.raises /\ heap[o].error = "disk full")

C23_Witness ==
    \E a, b \in DOMAIN heap :
        /\ heap[a].status = "failed" /\ heap[a].error = "disk full"
        /\ heap[b].status = "completed" /\ heap[b].result = "ok"
        /\ tasks[heap[a].id] = a /\ tasks[heap[b].id] = b
        /\ \E w \in DOMAIN wk : wk[w].pc = "get"

\* C24: created_at, started_at and completed_at never change once set;
\* started_at is set exactly on the records whose func has been called,
\* completed_at exactly on the COMPLETED and FAILED ones; and created_at <=
\* started_at <= completed_at.
C24_Timestamps ==
    /\ [][\A o \in DOMAIN heap :
            /\ heap'[o].created_at = heap[o].created_at
            /\ heap[o].started_at # None
                  => heap'[o].started_at = heap[o].started_at
            /\ heap[o].completed_at # None
                  => heap'[o].completed_at = heap[o].completed_at]_vars
    /\ [](\A o \in DOMAIN heap :
            /\ heap[o].started_at # None
                  <=> heap[o].status \in {"running", "completed", "failed"}
            /\ heap[o].started_at # None <=> heap[o].invoked = 1
            /\ heap[o].completed_at # None
                  <=> heap[o].status \in {"completed", "failed"}
            /\ heap[o].started_at # None
                  => heap[o].created_at.t <= heap[o].started_at[1].t
            /\ heap[o].completed_at # None
                  => heap[o].started_at[1].t <= heap[o].completed_at[1].t)

C24_Witness ==
    \E o \in DOMAIN heap :
        /\ heap[o].status = "completed"
        /\ heap[o].created_at.t < heap[o].completed_at[1].t
        /\ heap[o].started_at[1].t <= heap[o].completed_at[1].t

\* C25: the func of a task, plain or coroutine, runs without holding up the
\* other coroutines: a record does not go from PENDING to COMPLETED or FAILED
\* within one step of its worker, so that between the call of its func and
\* its end the other workers and the callers can run.
C25_WorkYields ==
    [][\A o \in DOMAIN heap :
          heap[o].status = "pending"
              => heap'[o].status \notin {"completed", "failed"}]_vars

\* The workers that no stop has cancelled and that have not ended.
Serving == {w \in DOMAIN wk : wk[w].pc # "done" /\ ~wk[w].cancel}

\* C26: the workers at work (not ended, not cancelled by a stop), and so the
\* funcs executing at one time, never number more than max_workers.
C26_BoundedWorkers ==
    /\ Cardinality(Serving) <= max_workers
    /\ Cardinality({w \in Serving : wk[w].pc = "exec"}) <= max_workers

C28_QueueMatchesTable ==
    /\ \A i \in DOMAIN queue :
          /\ heap[queue[i]].id \in DOMAIN tasks
          /\ tasks[heap[queue[i]].id] = queue[i]
    /\ \A id \in DOMAIN tasks :
          TaskOf(id).status = "pending" => InQueue(tasks[id]) = 1

\* C29: a cleanup_old_tasks that ends in an error has removed nothing: the
\* table, the records and the queue are as they were before the call.
C29_CleanupAllOrNothing ==
    [][(call'.op = "cleanup_old_tasks" /\ call'.out # "return")
          => (tasks' = tasks /\ heap' = heap /\ queue' = queue)]_vars

C29_Witness ==
    /\ call.op = "cleanup_old_tasks" /\ call.out = "TypeError"
    /\ Cardinality(DOMAIN tasks) = 2
    /\ \E id \in DOMAIN tasks : TaskOf(id).status = "completed"

\* C30: each firing of the periodic job "cleanup_old_tasks" creates exactly one
\* Task, and the worker that executes it leaves it COMPLETED, not FAILED.
C30_CleanupJobCompletes ==
    [][/\ (call'.op = "_scheduler_loop" /\ call'.out = "sleep")
            => \A i \in DOMAIN scheduled_tasks :
                  (scheduled_tasks[i].name = "cleanup_old_tasks"
                        /\ scheduled_tasks[i].next_run.t <= now)
                     => Cardinality({o \in DOMAIN heap' \ DOMAIN heap :
                           heap'[o].name = "cleanup_old_tasks"}) = 1
       /\ \A o \in DOMAIN heap :
            (heap[o].name = "cleanup_old_tasks" /\ heap[o].func.cleanup
                  /\ heap'[o].completed_at # heap[o].completed_at)
               => heap'[o].status = "completed"]_vars
====
